---- MODULE Spec2Model ----
(***************************************************************************)
(* A model of the defender crate: a guarded single-slot cell               *)
(* (UnSet | Value(Arc<T>) | Killed) behind a read/write lock, shared by    *)
(* the clones of a guard, with the blocking wait of SyncGuard and the      *)
(* poll of AsyncGuard under the three timeout policies.                    *)
(*                                                                         *)
(* Each process is a thread (or task) that owns one clone of the guard.    *)
(* An std::time::Instant is represented by its age, the time elapsed since *)
(* it was taken; Tick lets time pass and ages every live Instant.  Ages    *)
(* saturate at AgeCap, above every configured duration, since the code     *)
(* only compares an elapsed time with the configured duration.  Time may   *)
(* pass between any two steps of a thread: the code runs on preemptible    *)
(* threads and nothing bounds the delay between two of its statements.     *)
(*                                                                         *)
(* A call that takes the RwLock is two steps, the acquisition and the      *)
(* match under the lock; the lock is released when the match ends.  The    *)
(* variables marked "history" are not state of the program: they record    *)
(* what the properties below need to know about the past.                  *)
(***************************************************************************)
EXTENDS Naturals, FiniteSets

\* ------------------------------------------------------------- bounds
MaxVal == 2
MaxDur == 1

\* Two threads (or tasks), each owning one clone of the guard.
Procs == {1, 2}
Values == 1..MaxVal
Durations == 0..MaxDur
AgeCap == MaxDur + 1
\* One Arc for the cell and one for each observer can be alive at a time.
Handles == 1..(Cardinality(Procs) + 1)

VARIABLES
    flavor,     \* "sync" (SyncGuard) or "async" (AsyncGuard)
    timeout,    \* config.timeout, fixed at construction
    cell,       \* the State<T> inside Arc<RwLock<..>>, shared by all clones
    heap,       \* heap[h]: the T behind the Arc with handle h (0: not allocated)
    writer,     \* the process holding the RwLock exclusively (0: none)
    readers,    \* the processes holding the RwLock shared
    marker,     \* AsyncGuard.t0: NoInstant, or the age of the stored Instant
    t0owner,    \* the process holding the Mutex of AsyncGuard.t0 (0: none)
    pc,         \* pc[p]: where process p is inside its current call
    arg,        \* arg[p]: the value p passed to set (0: none)
    start,      \* start[p]: age of the local t0 of p's wait / poll
    ret,        \* ret[p]: what p's last completed call returned
    woken,      \* woken[p]: p's task was woken after its last Pending poll
    callAge,    \* history: time since p's current blocking wait began
    valOK,      \* history: the cell has held a value, with no reset, since
                \* p's wait began ("begin") or since a set within p's
                \* duration ("during"); "no" otherwise
    late,       \* history: the cell's content entered it after p's deadline
    retry,      \* history: p's wait began after its previous wait had timed out
    lastSet,    \* history: the value of the most recent successful set
    anchor,     \* history: age of the first Instant ever stored in AsyncGuard.t0
    pollLate,   \* history: p's current poll began after the anchor's deadline
    missed      \* history: a reset withdrew a value p's current wait could have read

vars == <<flavor, timeout, cell, heap, writer, readers, marker, t0owner, pc,
          arg, start, ret, woken, callAge, valOK, late, retry, lastSet,
          anchor, pollLate, missed>>

\* ------------------------------------------------------------- State<T>
UnSet == [tag |-> "UnSet", h |-> 0]
Killed == [tag |-> "Killed", h |-> 0]
Value(h) == [tag |-> "Value", h |-> h]

State_default == UnSet

\* ------------------------------------------------------------- Timeout
Instant == [kind |-> "Instant", d |-> 0]
Infinite == [kind |-> "Infinite", d |-> 0]
Duration(d) == [kind |-> "Duration", d |-> d]

GuardConfig_default == Infinite

\* ------------------------------------------------------------- results
NoRet == [op |-> "none", kind |-> "none", val |-> 0]
Ok(op, x) == [op |-> op, kind |-> "Ok", val |-> x]
OkNone(op) == [op |-> op, kind |-> "None", val |-> 0]
Err(op, e) == [op |-> op, kind |-> e, val |-> 0]
Pending == [op |-> "wait", kind |-> "Pending", val |-> 0]

NoInstant == AgeCap + 1

\* ------------------------------------------------------------- Arc<T>
\* The handles some owner still refers to: the cell, and every observer that
\* keeps the Arc its last wait returned.
Live(c, r) ==
    (IF c.tag = "Value" THEN {c.h} ELSE {})
        \cup {r[p].val : p \in {q \in Procs : r[q].op = "wait" /\ r[q].kind = "Ok"}}

\* Dropping the last Arc of a handle frees its allocation.
Arc_drop(hp, c, r) == [h \in Handles |-> IF h \in Live(c, r) THEN hp[h] ELSE 0]

\* A set that writes into the first allocation, shared or not, in place of
\* Arc::new.
Arc_new_in_place(hp) == 1

\* Arc::new: a handle that is not allocated.
Arc_new(hp) == CHOOSE h \in Handles : hp[h] = 0 /\ \A g \in Handles : hp[g] = 0 => h <= g

\* ------------------------------------------------------------- SyncGuard
\* A set that keeps a value that is already there (first writer wins).
SyncGuard_set_keeps(state, h) ==
    CASE state.tag = "Killed" -> [state |-> state, res |-> Err("set", "Killed")]
      [] state.tag = "Value" -> [state |-> state, res |-> Ok("set", 0)]
      [] state.tag = "UnSet" -> [state |-> Value(h), res |-> Ok("set", 0)]

\* set: the match under the write lock; h is the handle of Arc::new(value).
SyncGuard_set(state, h) ==
    IF state.tag = "Killed"
    THEN [state |-> state, res |-> Err("set", "Killed")]
    ELSE [state |-> Value(h), res |-> Ok("set", 0)]

\* A kill that does not look at the state first.
SyncGuard_kill_always(state) == [state |-> Killed, res |-> Ok("kill", 0)]

SyncGuard_kill(state) ==
    IF state.tag = "Value"
    THEN [state |-> state, res |-> Err("kill", "UnableToKilled")]
    ELSE [state |-> Killed, res |-> Ok("kill", 0)]

\* A reset that hands the value back and forgets to clear the cell.
SyncGuard_reset_keeps(state, hp) ==
    IF state.tag \in {"UnSet", "Killed"}
    THEN [state |-> state, res |-> OkNone("reset")]
    ELSE [state |-> state, res |-> Ok("reset", hp[state.h])]

\* reset: (**val).to_owned() copies the value out of the Arc.
SyncGuard_reset(state, hp) ==
    IF state.tag \in {"UnSet", "Killed"}
    THEN [state |-> state, res |-> OkNone("reset")]
    ELSE [state |-> UnSet, res |-> Ok("reset", hp[state.h])]

\* wait, one read of the cell. next = "return": the call returns res;
\* next = "continue": the loop goes round again.
\* An Instant wait that retries on UnSet, as the other policies do.
SyncGuard_wait_Instant_retries(state) ==
    CASE state.tag = "Value" -> [next |-> "return", res |-> Ok("wait", state.h)]
      [] state.tag = "UnSet" -> [next |-> "continue", res |-> NoRet]
      [] state.tag = "Killed" -> [next |-> "return", res |-> Err("wait", "Killed")]

SyncGuard_wait_Instant(state) ==
    CASE state.tag = "Value" -> [next |-> "return", res |-> Ok("wait", state.h)]
      [] state.tag = "UnSet" -> [next |-> "return", res |-> Err("wait", "Timeout")]
      [] state.tag = "Killed" -> [next |-> "return", res |-> Err("wait", "Killed")]

\* An Infinite wait that keeps spinning on a killed cell.
SyncGuard_wait_Infinite_ignores_kill(state) ==
    CASE state.tag = "Value" -> [next |-> "return", res |-> Ok("wait", state.h)]
      [] state.tag = "UnSet" -> [next |-> "continue", res |-> NoRet]
      [] state.tag = "Killed" -> [next |-> "continue", res |-> NoRet]

\* An Infinite wait that spins on a value as it does on UnSet.
SyncGuard_wait_Infinite_ignores_value(state) ==
    CASE state.tag = "Value" -> [next |-> "continue", res |-> NoRet]
      [] state.tag = "UnSet" -> [next |-> "continue", res |-> NoRet]
      [] state.tag = "Killed" -> [next |-> "return", res |-> Err("wait", "Killed")]

\* An Infinite wait that gives up on the first UnSet it reads.
SyncGuard_wait_Infinite_gives_up(state) ==
    CASE state.tag = "Value" -> [next |-> "return", res |-> Ok("wait", state.h)]
      [] state.tag = "UnSet" -> [next |-> "return", res |-> Err("wait", "Timeout")]
      [] state.tag = "Killed" -> [next |-> "return", res |-> Err("wait", "Killed")]

SyncGuard_wait_Infinite(state) ==
    CASE state.tag = "Value" -> [next |-> "return", res |-> Ok("wait", state.h)]
      [] state.tag = "UnSet" -> [next |-> "continue", res |-> NoRet]
      [] state.tag = "Killed" -> [next |-> "return", res |-> Err("wait", "Killed")]

SyncGuard_wait_Duration(state) ==
    CASE state.tag = "Value" -> [next |-> "return", res |-> Ok("wait", state.h)]
      [] state.tag = "UnSet" -> [next |-> "continue", res |-> NoRet]
      [] state.tag = "Killed" -> [next |-> "return", res |-> Err("wait", "Killed")]

\* A t0 that is not taken anew at the start of the call.
SyncGuard_wait_t0_stale(old) == old

\* let t0 = Instant::now(): a new Instant has age 0, whatever t0 was before.
SyncGuard_wait_t0(old) == 0

\* Loop conditions that are off by one, either way.
SyncGuard_wait_elapsed_strict(age, d) == age < d

SyncGuard_wait_elapsed_lenient(age, d) == age <= d + 1

\* A loop condition that never fails: the Duration wait has no deadline.
SyncGuard_wait_elapsed_forever(age, d) == TRUE

\* while t0.elapsed() <= timeout
SyncGuard_wait_elapsed(age, d) == age <= d

\* ------------------------------------------------------------- AsyncGuard
\* A set that does not look at the state first.
AsyncGuard_set_always(state, h) == [state |-> Value(h), res |-> Ok("set", 0)]

AsyncGuard_set(state, h) ==
    IF state.tag = "Killed"
    THEN [state |-> state, res |-> Err("set", "Killed")]
    ELSE [state |-> Value(h), res |-> Ok("set", 0)]

\* A kill that overrides a value.
AsyncGuard_kill_always(state) == [state |-> Killed, res |-> Ok("kill", 0)]

AsyncGuard_kill(state) ==
    IF state.tag = "Value"
    THEN [state |-> state, res |-> Err("kill", "UnableToKilled")]
    ELSE [state |-> Killed, res |-> Ok("kill", 0)]

\* A reset that clears a kill as well.
AsyncGuard_reset_revives(state, hp) ==
    IF state.tag \in {"UnSet", "Killed"}
    THEN [state |-> UnSet, res |-> OkNone("reset")]
    ELSE [state |-> UnSet, res |-> Ok("reset", hp[state.h])]

AsyncGuard_reset(state, hp) ==
    IF state.tag \in {"UnSet", "Killed"}
    THEN [state |-> state, res |-> OkNone("reset")]
    ELSE [state |-> UnSet, res |-> Ok("reset", hp[state.h])]

\* poll, the read of the cell: res is Pending for Poll::Pending, and wake says
\* whether cx.waker().wake_by_ref() was called first.
AsyncGuard_poll_Instant(state) ==
    CASE state.tag = "Value" -> [res |-> Ok("wait", state.h), wake |-> FALSE]
      [] state.tag = "UnSet" -> [res |-> Err("wait", "Timeout"), wake |-> FALSE]
      [] state.tag = "Killed" -> [res |-> Err("wait", "Killed"), wake |-> FALSE]

AsyncGuard_poll_Infinite(state) ==
    CASE state.tag = "Value" -> [res |-> Ok("wait", state.h), wake |-> FALSE]
      [] state.tag = "Killed" -> [res |-> Err("wait", "Killed"), wake |-> FALSE]
      [] state.tag = "UnSet" -> [res |-> Pending, wake |-> TRUE]

AsyncGuard_poll_Duration(state) ==
    CASE state.tag = "Value" -> [res |-> Ok("wait", state.h), wake |-> FALSE]
      [] state.tag = "Killed" -> [res |-> Err("wait", "Killed"), wake |-> FALSE]
      [] state.tag = "UnSet" -> [res |-> Pending, wake |-> FALSE]

\* Some(t0) if t0.elapsed() <= timeout
AsyncGuard_poll_elapsed(age, d) == age <= d

\* ------------------------------------------------------------- Init
\* SyncGuard::new(config) / AsyncGuard::new(config): the cell is UnSet, the
\* locks are free, the deadline marker is empty, no call is in progress.
Init ==
    /\ flavor \in {"sync", "async"}
    /\ timeout \in {Instant, GuardConfig_default} \cup {Duration(d) : d \in Durations}
    /\ cell = State_default
    /\ heap = [h \in Handles |-> 0]
    /\ writer = 0
    /\ readers = {}
    /\ marker = NoInstant
    /\ t0owner = 0
    /\ pc = [p \in Procs |-> "idle"]
    /\ arg = [p \in Procs |-> 0]
    /\ start = [p \in Procs |-> NoInstant]
    /\ ret = [p \in Procs |-> NoRet]
    /\ woken = [p \in Procs |-> FALSE]
    /\ callAge = [p \in Procs |-> NoInstant]
    /\ valOK = [p \in Procs |-> "no"]
    /\ late = [p \in Procs |-> FALSE]
    /\ retry = [p \in Procs |-> FALSE]
    /\ lastSet = 0
    /\ anchor = NoInstant
    /\ pollLate = [p \in Procs |-> FALSE]
    /\ missed = [p \in Procs |-> FALSE]

\* ------------------------------------------------------------- helpers
\* p may start a call: it is in none, and it is not a task suspended in an
\* await of the guard.
CanCall(p) == pc[p] = "idle" /\ ret[p].kind # "Pending"

\* p is inside a blocking wait.
InWait(q) == pc[q] \in {"w_check", "w_lock", "w_read"}

\* The deadline of q's blocking wait has not passed.
InTime(q) == timeout.kind # "Duration" \/ callAge[q] <= timeout.d

\* Starting a call drops what the previous call returned.
Begin(p, newpc) ==
    /\ pc' = [pc EXCEPT ![p] = newpc]
    /\ ret' = [ret EXCEPT ![p] = NoRet]

\* p's wait returns res.
WaitReturn(p, res) ==
    /\ pc' = [pc EXCEPT ![p] = "idle"]
    /\ ret' = [ret EXCEPT ![p] = res]
    /\ start' = [start EXCEPT ![p] = NoInstant]
    /\ callAge' = [callAge EXCEPT ![p] = NoInstant]
    /\ valOK' = [valOK EXCEPT ![p] = "no"]
    /\ retry' = [retry EXCEPT ![p] = FALSE]
    /\ missed' = [missed EXCEPT ![p] = FALSE]
    /\ UNCHANGED late

\* ------------------------------------------------------------- set
\* self.value.write(): blocks until no reader and no writer holds the lock.
Set_lock(p, v) ==
    /\ CanCall(p)
    /\ writer = 0 /\ readers = {}
    /\ writer' = p
    /\ Begin(p, "set")
    /\ arg' = [arg EXCEPT ![p] = v]
    /\ heap' = Arc_drop(heap, cell, ret')
    /\ UNCHANGED <<flavor, timeout, cell, readers, marker, t0owner, start, woken,
                   callAge, valOK, late, retry, lastSet>>
    /\ UNCHANGED <<anchor, pollLate, missed>>

Set_body(p) ==
    /\ pc[p] = "set"
    /\ LET h == Arc_new(heap)
           r == IF flavor = "sync" THEN SyncGuard_set(cell, h) ELSE AsyncGuard_set(cell, h)
           done == r.res.kind = "Ok"
       IN /\ cell' = r.state
          /\ ret' = [ret EXCEPT ![p] = r.res]
          /\ heap' = Arc_drop(IF done THEN [heap EXCEPT ![h] = arg[p]] ELSE heap, cell', ret')
          /\ lastSet' = IF done THEN arg[p] ELSE lastSet
          /\ valOK' = [q \in Procs |->
                         IF done /\ InWait(q) /\ InTime(q) /\ valOK[q] = "no"
                         THEN "during" ELSE valOK[q]]
          /\ late' = [q \in Procs |-> IF done THEN InWait(q) /\ ~InTime(q) ELSE late[q]]
    /\ writer' = 0
    /\ pc' = [pc EXCEPT ![p] = "idle"]
    /\ arg' = [arg EXCEPT ![p] = 0]
    /\ UNCHANGED <<flavor, timeout, readers, marker, t0owner, start, woken, callAge,
                   retry>>
    /\ UNCHANGED <<anchor, pollLate, missed>>

\* ------------------------------------------------------------- kill
Kill_lock(p) ==
    /\ CanCall(p)
    /\ writer = 0 /\ readers = {}
    /\ writer' = p
    /\ Begin(p, "kill")
    /\ heap' = Arc_drop(heap, cell, ret')
    /\ UNCHANGED <<flavor, timeout, cell, readers, marker, t0owner, arg, start, woken,
                   callAge, valOK, late, retry, lastSet>>
    /\ UNCHANGED <<anchor, pollLate, missed>>

Kill_body(p) ==
    /\ pc[p] = "kill"
    /\ LET r == IF flavor = "sync" THEN SyncGuard_kill(cell) ELSE AsyncGuard_kill(cell)
       IN /\ cell' = r.state
          /\ ret' = [ret EXCEPT ![p] = r.res]
          /\ heap' = Arc_drop(heap, cell', ret')
          /\ late' = [q \in Procs |->
                        IF cell'.tag # cell.tag THEN InWait(q) /\ ~InTime(q) ELSE late[q]]
    /\ writer' = 0
    /\ pc' = [pc EXCEPT ![p] = "idle"]
    /\ UNCHANGED <<flavor, timeout, readers, marker, t0owner, arg, start, woken, callAge,
                   valOK, retry, lastSet>>
    /\ UNCHANGED <<anchor, pollLate, missed>>

\* ------------------------------------------------------------- reset
Reset_lock(p) ==
    /\ CanCall(p)
    /\ writer = 0 /\ readers = {}
    /\ writer' = p
    /\ Begin(p, "reset")
    /\ heap' = Arc_drop(heap, cell, ret')
    /\ UNCHANGED <<flavor, timeout, cell, readers, marker, t0owner, arg, start, woken,
                   callAge, valOK, late, retry, lastSet>>
    /\ UNCHANGED <<anchor, pollLate, missed>>

Reset_body(p) ==
    /\ pc[p] = "reset"
    /\ LET r == IF flavor = "sync" THEN SyncGuard_reset(cell, heap)
                                   ELSE AsyncGuard_reset(cell, heap)
       IN /\ cell' = r.state
          /\ ret' = [ret EXCEPT ![p] = r.res]
          /\ heap' = Arc_drop(heap, cell', ret')
          /\ valOK' = [q \in Procs |-> IF cell'.tag # cell.tag THEN "no" ELSE valOK[q]]
          /\ late' = [q \in Procs |-> IF cell'.tag # cell.tag THEN FALSE ELSE late[q]]
          /\ missed' = [q \in Procs |->
                          IF cell.tag = "Value" /\ InWait(q) /\ valOK[q] # "no"
                          THEN TRUE ELSE missed[q]]
    /\ writer' = 0
    /\ pc' = [pc EXCEPT ![p] = "idle"]
    /\ UNCHANGED <<flavor, timeout, readers, marker, t0owner, arg, start, woken, callAge,
                   retry, lastSet>>
    /\ UNCHANGED <<anchor, pollLate>>

\* ------------------------------------------------------------- SyncGuard::wait
\* The call begins.  Under Duration it takes its own t0 first.
Wait_begin(p) ==
    /\ flavor = "sync"
    /\ CanCall(p)
    /\ Begin(p, IF timeout.kind = "Duration" THEN "w_check" ELSE "w_lock")
    /\ heap' = Arc_drop(heap, cell, ret')
    /\ start' = [start EXCEPT ![p] = IF timeout.kind = "Duration"
                                     THEN SyncGuard_wait_t0(start[p]) ELSE NoInstant]
    /\ callAge' = [callAge EXCEPT ![p] = IF timeout.kind = "Duration" THEN 0 ELSE NoInstant]
    /\ valOK' = [valOK EXCEPT ![p] = IF cell.tag = "Value" THEN "begin" ELSE "no"]
    /\ late' = [late EXCEPT ![p] = FALSE]
    /\ retry' = [retry EXCEPT ![p] = ret[p] = Err("wait", "Timeout")]
    /\ missed' = [missed EXCEPT ![p] = FALSE]
    /\ UNCHANGED <<flavor, timeout, cell, writer, readers, marker, t0owner, arg, woken,
                   lastSet>>
    /\ UNCHANGED <<anchor, pollLate>>

\* The loop condition of the Duration policy; falling out of the loop returns
\* Err(Timeout).
Wait_deadline(p) ==
    /\ pc[p] = "w_check"
    /\ IF SyncGuard_wait_elapsed(start[p], timeout.d)
       THEN /\ pc' = [pc EXCEPT ![p] = "w_lock"]
            /\ UNCHANGED <<ret, start, callAge, valOK, late, retry, missed>>
       ELSE WaitReturn(p, Err("wait", "Timeout"))
    /\ UNCHANGED <<flavor, timeout, cell, heap, writer, readers, marker, t0owner, arg,
                   woken, lastSet>>
    /\ UNCHANGED <<anchor, pollLate>>

\* A read acquisition that does not wait for the writer to leave.
Wait_lock_barging(p) ==
    /\ pc[p] = "w_lock"
    /\ readers' = readers \cup {p}
    /\ pc' = [pc EXCEPT ![p] = "w_read"]
    /\ UNCHANGED <<flavor, timeout, cell, heap, writer, marker, t0owner, arg, start, ret,
                   woken, callAge, valOK, late, retry, lastSet>>
    /\ UNCHANGED <<anchor, pollLate, missed>>

\* self.value.read(): blocks while a writer holds the lock.
Wait_lock(p) ==
    /\ pc[p] = "w_lock"
    /\ writer = 0
    /\ readers' = readers \cup {p}
    /\ pc' = [pc EXCEPT ![p] = "w_read"]
    /\ UNCHANGED <<flavor, timeout, cell, heap, writer, marker, t0owner, arg, start, ret,
                   woken, callAge, valOK, late, retry, lastSet>>
    /\ UNCHANGED <<anchor, pollLate, missed>>

\* A wait that takes the value out of the cell when it returns it.
Wait_read_takes(p) ==
    /\ pc[p] = "w_read"
    /\ readers' = readers \ {p}
    /\ LET r == CASE timeout.kind = "Instant" -> SyncGuard_wait_Instant(cell)
                  [] timeout.kind = "Infinite" -> SyncGuard_wait_Infinite(cell)
                  [] timeout.kind = "Duration" -> SyncGuard_wait_Duration(cell)
       IN IF r.next = "return"
          THEN /\ WaitReturn(p, r.res)
               /\ cell' = IF cell.tag = "Value" THEN UnSet ELSE cell
          ELSE /\ pc' = [pc EXCEPT ![p] = IF timeout.kind = "Duration"
                                          THEN "w_check" ELSE "w_lock"]
               /\ UNCHANGED <<ret, start, callAge, valOK, late, retry, missed, cell>>
    /\ UNCHANGED <<flavor, timeout, heap, writer, marker, t0owner, arg, woken,
                   lastSet>>
    /\ UNCHANGED <<anchor, pollLate>>

\* The match on the state read; the read guard is dropped at its end.
Wait_read(p) ==
    /\ pc[p] = "w_read"
    /\ readers' = readers \ {p}
    /\ LET r == CASE timeout.kind = "Instant" -> SyncGuard_wait_Instant(cell)
                  [] timeout.kind = "Infinite" -> SyncGuard_wait_Infinite(cell)
                  [] timeout.kind = "Duration" -> SyncGuard_wait_Duration(cell)
       IN IF r.next = "return"
          THEN WaitReturn(p, r.res)
          ELSE /\ pc' = [pc EXCEPT ![p] = IF timeout.kind = "Duration"
                                          THEN "w_check" ELSE "w_lock"]
               /\ UNCHANGED <<ret, start, callAge, valOK, late, retry, missed>>
    /\ UNCHANGED <<flavor, timeout, cell, heap, writer, marker, t0owner, arg, woken,
                   lastSet>>
    /\ UNCHANGED <<anchor, pollLate>>

\* ------------------------------------------------------------- AsyncGuard::poll
\* The executor polls the task: its first poll, or a poll after a wake.
Poll_begin(p) ==
    /\ flavor = "async"
    /\ pc[p] = "idle"
    /\ ret[p].kind = "Pending" => woken[p]
    /\ Begin(p, IF timeout.kind = "Duration" THEN "p_t0check" ELSE "p_lock")
    /\ woken' = [woken EXCEPT ![p] = FALSE]
    /\ pollLate' = [pollLate EXCEPT ![p] = /\ timeout.kind = "Duration"
                                           /\ anchor # NoInstant
                                           /\ anchor > timeout.d]
    /\ heap' = Arc_drop(heap, cell, ret')
    /\ UNCHANGED <<flavor, timeout, cell, writer, readers, marker, t0owner, arg, start,
                   callAge, valOK, late, retry, lastSet>>
    /\ UNCHANGED <<anchor, missed>>

\* if self.t0.lock().is_none(): the mutex is released when the test is done.
Poll_t0_check(p) ==
    /\ pc[p] = "p_t0check"
    /\ t0owner = 0
    /\ pc' = [pc EXCEPT ![p] = IF marker = NoInstant THEN "p_t0now" ELSE "p_t0match"]
    /\ UNCHANGED <<flavor, timeout, cell, heap, writer, readers, marker, t0owner, arg,
                   start, ret, woken, callAge, valOK, late, retry, lastSet>>
    /\ UNCHANGED <<anchor, pollLate, missed>>

\* let t0 = std::time::Instant::now();
Poll_t0_now(p) ==
    /\ pc[p] = "p_t0now"
    /\ start' = [start EXCEPT ![p] = 0]
    /\ pc' = [pc EXCEPT ![p] = "p_t0store"]
    /\ UNCHANGED <<flavor, timeout, cell, heap, writer, readers, marker, t0owner, arg,
                   ret, woken, callAge, valOK, late, retry, lastSet>>
    /\ UNCHANGED <<anchor, pollLate, missed>>

\* *self.t0.lock().deref_mut() = Some(t0);
Poll_t0_store(p) ==
    /\ pc[p] = "p_t0store"
    /\ t0owner = 0
    /\ marker' = start[p]
    /\ anchor' = IF anchor = NoInstant THEN start[p] ELSE anchor
    /\ start' = [start EXCEPT ![p] = NoInstant]
    /\ pc' = [pc EXCEPT ![p] = "p_t0match"]
    /\ UNCHANGED <<flavor, timeout, cell, heap, writer, readers, t0owner, arg, ret,
                   woken, callAge, valOK, late, retry, lastSet>>
    /\ UNCHANGED <<pollLate, missed>>

\* match self.t0.lock().deref(): the mutex is held to the end of the match,
\* across the read of the cell.
Poll_t0_match(p) ==
    /\ pc[p] = "p_t0match"
    /\ t0owner = 0
    /\ IF marker # NoInstant /\ AsyncGuard_poll_elapsed(marker, timeout.d)
       THEN /\ t0owner' = p
            /\ pc' = [pc EXCEPT ![p] = "p_lock"]
            /\ UNCHANGED <<ret, pollLate>>
       ELSE /\ t0owner' = 0
            /\ pc' = [pc EXCEPT ![p] = "idle"]
            /\ ret' = [ret EXCEPT ![p] = IF marker # NoInstant
                                         THEN Err("wait", "Timeout") ELSE Pending]
            /\ pollLate' = [pollLate EXCEPT ![p] = FALSE]
    /\ UNCHANGED <<flavor, timeout, cell, heap, writer, readers, marker, arg, start,
                   woken, callAge, valOK, late, retry, lastSet>>
    /\ UNCHANGED <<anchor, missed>>

\* self.value.read()
Poll_lock(p) ==
    /\ pc[p] = "p_lock"
    /\ writer = 0
    /\ readers' = readers \cup {p}
    /\ pc' = [pc EXCEPT ![p] = "p_read"]
    /\ UNCHANGED <<flavor, timeout, cell, heap, writer, marker, t0owner, arg, start, ret,
                   woken, callAge, valOK, late, retry, lastSet>>
    /\ UNCHANGED <<anchor, pollLate, missed>>

\* The match on the state read; poll returns, and both guards are dropped.
Poll_read(p) ==
    /\ pc[p] = "p_read"
    /\ readers' = readers \ {p}
    /\ t0owner' = IF t0owner = p THEN 0 ELSE t0owner
    /\ LET r == CASE timeout.kind = "Instant" -> AsyncGuard_poll_Instant(cell)
                  [] timeout.kind = "Infinite" -> AsyncGuard_poll_Infinite(cell)
                  [] timeout.kind = "Duration" -> AsyncGuard_poll_Duration(cell)
       IN /\ ret' = [ret EXCEPT ![p] = r.res]
          /\ woken' = [woken EXCEPT ![p] = r.wake]
    /\ pollLate' = [pollLate EXCEPT ![p] = FALSE]
    /\ pc' = [pc EXCEPT ![p] = "idle"]
    /\ UNCHANGED <<flavor, timeout, cell, heap, writer, marker, arg, start, callAge,
                   valOK, late, retry, lastSet>>
    /\ UNCHANGED <<anchor, missed>>

\* ------------------------------------------------------------- time
Older(age) == IF age < AgeCap THEN age + 1 ELSE age

\* Time passes: every live Instant gets older.
Tick ==
    /\ start' = [p \in Procs |-> Older(start[p])]
    /\ callAge' = [p \in Procs |-> Older(callAge[p])]
    /\ marker' = Older(marker)
    /\ anchor' = Older(anchor)
    /\ UNCHANGED <<flavor, timeout, cell, heap, writer, readers, t0owner, pc, arg, ret,
                   woken, valOK, late, retry, lastSet>>
    /\ UNCHANGED <<pollLate, missed>>

\* ------------------------------------------------------------- the system
Next ==
    \/ \E p \in Procs : \E v \in Values : Set_lock(p, v)
    \/ \E p \in Procs : Set_body(p)
    \/ \E p \in Procs : Kill_lock(p)
    \/ \E p \in Procs : Kill_body(p)
    \/ \E p \in Procs : Reset_lock(p)
    \/ \E p \in Procs : Reset_body(p)
    \/ \E p \in Procs : Wait_begin(p)
    \/ \E p \in Procs : Wait_deadline(p)
    \/ \E p \in Procs : Wait_lock(p)
    \/ \E p \in Procs : Wait_read(p)
    \/ \E p \in Procs : Poll_begin(p)
    \/ \E p \in Procs : Poll_t0_check(p)
    \/ \E p \in Procs : Poll_t0_now(p)
    \/ \E p \in Procs : Poll_t0_store(p)
    \/ \E p \in Procs : Poll_t0_match(p)
    \/ \E p \in Procs : Poll_lock(p)
    \/ \E p \in Procs : Poll_read(p)
    \/ Tick

Spec == Init /\ [][Next]_vars

\* A thread inside a call keeps running: the scheduler does not starve it, and
\* the RwLock lets a thread that keeps asking for it in (parking_lot's lock is
\* eventually fair), so an acquisition that is possible again and again happens.
\* Time passes.  Nothing obliges a thread to start a call.
Fairness ==
    /\ \A p \in Procs :
          /\ WF_vars(Set_body(p)) /\ WF_vars(Kill_body(p)) /\ WF_vars(Reset_body(p))
          /\ WF_vars(Wait_deadline(p)) /\ SF_vars(Wait_lock(p)) /\ WF_vars(Wait_read(p))
    /\ WF_vars(Tick)

\* The blocking guard on its own, under fair scheduling.
SyncInit == Init /\ flavor = "sync"

SyncNext ==
    \/ \E p \in Procs : \E v \in Values : Set_lock(p, v)
    \/ \E p \in Procs : Set_body(p)
    \/ \E p \in Procs : Kill_lock(p)
    \/ \E p \in Procs : Kill_body(p)
    \/ \E p \in Procs : Reset_lock(p)
    \/ \E p \in Procs : Reset_body(p)
    \/ \E p \in Procs : Wait_begin(p)
    \/ \E p \in Procs : Wait_deadline(p)
    \/ \E p \in Procs : Wait_lock(p)
    \/ \E p \in Procs : Wait_read(p)
    \/ Tick

SyncFairSpec == SyncInit /\ [][SyncNext]_vars /\ Fairness

\* ============================================================= properties

\* C1: in both flavors a kill() whose match finds the cell holding Value(v)
\* returns Err(UnableToKilled) and leaves the cell holding the same Arc with the
\* same value, whichever clone calls it and whatever happened before.
C1_KillAfterValue ==
    [][\A p \in Procs :
         (pc[p] = "kill" /\ pc'[p] = "idle" /\ cell.tag = "Value")
             => /\ ret'[p] = Err("kill", "UnableToKilled")
                /\ cell' = cell
                /\ heap'[cell.h] = heap[cell.h]]_vars

\* A kill has failed on a cell that holds a value a clone set.
C1_Witness ==
    \E p \in Procs :
        /\ ret[p] = Err("kill", "UnableToKilled")
        /\ cell.tag = "Value" /\ heap[cell.h] \in Values

\* C2: in both flavors a set(v) whose match finds the cell Killed returns
\* Err(Killed), leaves the cell Killed and allocates nothing: the value is never
\* published.
C2_SetAfterKill ==
    [][\A p \in Procs :
         (pc[p] = "set" /\ pc'[p] = "idle" /\ cell = Killed)
             => /\ ret'[p] = Err("set", "Killed")
                /\ cell' = Killed
                /\ heap' = heap]_vars

\* A set has failed after the other clone's kill succeeded.
C2_Witness ==
    \E p, q \in Procs :
        /\ p # q
        /\ ret[q] = Ok("kill", 0)
        /\ ret[p] = Err("set", "Killed")
        /\ cell = Killed

\* C3: reset() always returns Ok: on Value(v) it returns Some(v), v being the
\* value of the most recent successful set, and leaves the cell UnSet; on UnSet
\* or Killed it returns None and leaves the cell as it is.
C3_ResetRoundTrip ==
    [][\A p \in Procs :
         (pc[p] = "reset" /\ pc'[p] = "idle")
             => IF cell.tag = "Value"
                THEN /\ ret'[p] = Ok("reset", heap[cell.h])
                     /\ heap[cell.h] = lastSet
                     /\ cell' = UnSet
                ELSE /\ ret'[p] = OkNone("reset")
                     /\ cell' = cell]_vars

\* A reset has handed back the value the other clone set and emptied the cell.
C3_Witness ==
    \E p, q \in Procs :
        /\ p # q
        /\ ret[q] = Ok("set", 0)
        /\ ret[p] = Ok("reset", lastSet) /\ lastSet \in Values
        /\ cell = UnSet

\* C4: once the cell is Killed it is Killed in every later state.
C4_KilledIsPermanent == [][cell = Killed => cell' = Killed]_vars

\* The cell is still Killed after a reset (None) and a failed set on it.
C4_Witness ==
    \E p, q \in Procs :
        /\ cell = Killed
        /\ ret[p] = OkNone("reset")
        /\ ret[q] = Err("set", "Killed")

\* C5: under Instant the blocking wait() reads the cell once: the read ends the
\* call, with Ok(handle) on Value, Err(Timeout) on UnSet and Err(Killed) on
\* Killed, and the call never evaluates a deadline.
C5_InstantWaitReadsOnce ==
    [][\A p \in Procs :
         (flavor = "sync" /\ timeout = Instant)
             => /\ pc'[p] # "w_check"
                /\ pc[p] = "w_read" /\ pc'[p] # "w_read"
                     => /\ pc'[p] = "idle"
                        /\ ret'[p] = CASE cell.tag = "Value" -> Ok("wait", cell.h)
                                       [] cell.tag = "UnSet" -> Err("wait", "Timeout")
                                       [] cell.tag = "Killed" -> Err("wait", "Killed")]_vars

\* An Instant wait has timed out on an UnSet cell.
C5_Witness ==
    \E p \in Procs :
        /\ flavor = "sync" /\ timeout = Instant
        /\ ret[p] = Err("wait", "Timeout")
        /\ cell = UnSet

\* p's blocking wait returns in this step.
WaitReturns(p) == InWait(p) /\ pc'[p] = "idle"

\* p's blocking Bounded wait evaluates its loop condition in this step.
DeadlineChecked(p) == pc[p] = "w_check" /\ pc'[p] # "w_check"

\* p's blocking wait finishes a read of the cell in this step.
ReadDone(p) == pc[p] = "w_read" /\ pc'[p] # "w_read"

\* C6 as claimed: a set on an UnSet cell or on a value succeeds and replaces
\* the content, and a blocking wait that any clone begins with a value in the
\* cell (and no reset after it) returns the value of the most recent
\* successful set.
C6_AsClaimed ==
    [][\A p \in Procs :
         /\ (pc[p] = "set" /\ pc'[p] = "idle" /\ cell # Killed)
                => /\ ret'[p] = Ok("set", 0)
                   /\ cell'.tag = "Value" /\ cell' # cell
                   /\ heap'[cell'.h] = arg[p]
         /\ (flavor = "sync" /\ WaitReturns(p) /\ valOK[p] = "begin")
                => /\ ret'[p] = Ok("wait", cell.h)
                   /\ heap'[cell.h] = lastSet]_vars

\* C6, amended: as claimed, except that under Duration(d) the wait returns
\* Err(Timeout) instead when more than d has elapsed at its loop condition.
C6_LastWriterWins ==
    [][\A p \in Procs :
         /\ (pc[p] = "set" /\ pc'[p] = "idle" /\ cell # Killed)
                => /\ ret'[p] = Ok("set", 0)
                   /\ cell'.tag = "Value" /\ cell' # cell
                   /\ heap'[cell'.h] = arg[p]
         /\ (flavor = "sync" /\ WaitReturns(p) /\ valOK[p] = "begin")
                => \/ /\ ret'[p] = Ok("wait", cell.h)
                      /\ heap'[cell.h] = lastSet
                   \/ /\ ret'[p] = Err("wait", "Timeout")
                      /\ timeout.kind = "Duration" /\ pc[p] = "w_check"
                      /\ callAge[p] > timeout.d]_vars

\* An observer holds the value the other clone wrote over an earlier one.
C6_Witness ==
    \E p, q \in Procs :
        /\ p # q /\ flavor = "sync"
        /\ ret[q] = Ok("set", 0)
        /\ ret[p].op = "wait" /\ ret[p].kind = "Ok"
        /\ cell = Value(ret[p].val)
        /\ heap[ret[p].val] = lastSet /\ lastSet \in Values

\* C7 as claimed: under Duration(d), a blocking wait that p begins after its
\* previous wait timed out and after the value was set (and not reset since)
\* returns the value.
C7_AsClaimed ==
    [][\A p \in Procs :
         (flavor = "sync" /\ timeout.kind = "Duration" /\ retry[p] /\ valOK[p] = "begin"
          /\ WaitReturns(p))
             => ret'[p] = Ok("wait", cell.h)]_vars

\* C7, amended: such a wait has a deadline of its own: its loop condition
\* holds whenever it is evaluated within d of the start of this call, whatever
\* the earlier call did, and its read returns the value.  (Only a loop
\* condition evaluated later than d makes it time out again.)
C7_FreshDeadline ==
    [][\A p \in Procs :
         (flavor = "sync" /\ timeout.kind = "Duration" /\ retry[p] /\ valOK[p] = "begin")
             => /\ (DeadlineChecked(p) /\ callAge[p] <= timeout.d) => pc'[p] = "w_lock"
                /\ (WaitReturns(p) /\ pc[p] = "w_check") => callAge[p] > timeout.d
                /\ ReadDone(p) => ret'[p] = Ok("wait", cell.h)]_vars

\* The retry is about to return the value, time having passed in this call.
C7_Witness ==
    \E p \in Procs :
        /\ flavor = "sync" /\ timeout.kind = "Duration"
        /\ retry[p] /\ valOK[p] = "begin"
        /\ pc[p] = "w_read" /\ callAge[p] > 0

\* C8: under Infinite, when a clone is inside a blocking wait on an UnSet cell
\* and another clone's kill has the write lock, the kill returns Ok and leaves
\* the cell Killed, and the waiter eventually returns Err(Killed); an Infinite
\* wait never returns Timeout, and on a killed cell it returns nothing but
\* Err(Killed).
C8_KillReachesWaiter ==
    /\ \A p \in Procs : \A q \in Procs \ {p} :
          (flavor = "sync" /\ timeout = Infinite /\ InWait(p) /\ cell = UnSet
           /\ pc[q] = "kill")
              ~> (ret[p] = Err("wait", "Killed"))
    /\ [][\A q \in Procs :
            (pc[q] = "kill" /\ pc'[q] = "idle" /\ cell = UnSet)
                => (ret'[q] = Ok("kill", 0) /\ cell' = Killed)]_vars
    /\ [][\A p \in Procs :
            (flavor = "sync" /\ timeout = Infinite /\ WaitReturns(p))
                => /\ ret'[p] # Err("wait", "Timeout")
                   /\ cell = Killed => ret'[p] = Err("wait", "Killed")]_vars

\* The waiter is spinning on the UnSet cell while the other clone's kill holds
\* the write lock.
C8_Witness ==
    \E p, q \in Procs :
        /\ flavor = "sync" /\ timeout = Infinite
        /\ pc[p] = "w_lock" /\ cell = UnSet
        /\ pc[q] = "kill" /\ writer = q

\* C9 as claimed: under Duration(d), a blocking wait returns the value (and
\* not Timeout) if the cell held it when the wait began, or a set put it there
\* before d had elapsed since the wait began, with no reset after it.
C9_AsClaimed ==
    [][\A p \in Procs :
         (flavor = "sync" /\ timeout.kind = "Duration" /\ valOK[p] # "no" /\ WaitReturns(p))
             => ret'[p] = Ok("wait", cell.h)]_vars

\* C9, amended: with such a value in the cell, every loop condition evaluated
\* while no more than d has elapsed holds, and the read after it returns the
\* value; the wait returns Timeout only if it evaluates its loop condition
\* later than d.
C9_ValueWithinBound ==
    [][\A p \in Procs :
         (flavor = "sync" /\ timeout.kind = "Duration" /\ valOK[p] # "no")
             => /\ (DeadlineChecked(p) /\ callAge[p] <= timeout.d) => pc'[p] = "w_lock"
                /\ ReadDone(p) => ret'[p] = Ok("wait", cell.h)
                /\ WaitReturns(p)
                     => \/ ret'[p] = Ok("wait", cell.h)
                        \/ /\ ret'[p] = Err("wait", "Timeout")
                           /\ callAge[p] > timeout.d]_vars

\* A wait that began on an empty cell is about to read the value a set put
\* there while it was waiting, with time elapsed but its deadline not passed.
C9_Witness ==
    \E p \in Procs :
        /\ flavor = "sync" /\ timeout.kind = "Duration"
        /\ pc[p] = "w_read" /\ valOK[p] = "during"
        /\ 0 < callAge[p] /\ callAge[p] <= timeout.d
        /\ lastSet \in Values /\ ~retry[p]
        /\ \E q \in Procs : q # p /\ ret[q] = Ok("set", 0)

\* C10 as claimed: under Duration(d), a blocking wait returns Timeout only
\* after more than d has elapsed since it began, and it never returns a value
\* or a kill that entered the cell after its deadline.
C10_AsClaimed ==
    [][\A p \in Procs :
         (flavor = "sync" /\ timeout.kind = "Duration" /\ WaitReturns(p))
             => /\ ret'[p] = Err("wait", "Timeout") => callAge[p] > timeout.d
                /\ late[p] => ret'[p] = Err("wait", "Timeout")]_vars

\* C10, amended: a wait returns Timeout only after more than d has elapsed
\* since it began, and a loop condition evaluated after more than d has elapsed
\* ends the call with Timeout whatever the cell holds; content that entered the
\* cell after the deadline is returned only by a read whose loop condition was
\* evaluated in time.
C10_DeadlineHonored ==
    [][\A p \in Procs :
         (flavor = "sync" /\ timeout.kind = "Duration")
             => /\ (WaitReturns(p) /\ ret'[p] = Err("wait", "Timeout"))
                     => callAge[p] > timeout.d
                /\ (DeadlineChecked(p) /\ callAge[p] > timeout.d)
                     => (pc'[p] = "idle" /\ ret'[p] = Err("wait", "Timeout"))
                /\ (WaitReturns(p) /\ late[p] /\ ret'[p] # Err("wait", "Timeout"))
                     => pc[p] = "w_read"]_vars

\* A wait has timed out although a value entered the cell after its deadline.
C10_Witness ==
    \E p \in Procs :
        /\ flavor = "sync" /\ timeout.kind = "Duration"
        /\ ret[p] = Err("wait", "Timeout")
        /\ late[p] /\ cell.tag = "Value"

\* p's poll returns in this step.
PollReturns(p) == pc[p] \in {"p_t0match", "p_read"} /\ pc'[p] = "idle"

\* C11: in the cooperative flavor under Duration(d), once more than d has
\* elapsed since the first Instant stored for the lineage, every poll that any
\* clone begins from then on returns Err(Timeout), whatever the cell holds and
\* whatever set, kill or reset happened.
C11_LineageDeadline ==
    [][\A p \in Procs :
         (flavor = "async" /\ timeout.kind = "Duration" /\ pollLate[p] /\ PollReturns(p))
             => ret'[p] = Err("wait", "Timeout")]_vars

\* A poll begun after the lineage's deadline has returned Timeout on a cell
\* that holds a value.
C11_Witness ==
    \E p \in Procs :
        /\ flavor = "async" /\ timeout.kind = "Duration"
        /\ anchor # NoInstant /\ anchor > timeout.d
        /\ ret[p] = Err("wait", "Timeout")
        /\ cell.tag = "Value"

\* C12: no clone stays inside a blocking wait under Instant or Duration(d) for
\* ever: again and again it is outside such a wait, so every such wait returns,
\* whatever the other clone does, given that time passes and the thread keeps
\* running; and a Duration wait that returns while the cell is UnSet returns
\* Err(Timeout), on a repeated call as on the first.
C12_BoundedWaitTerminates ==
    /\ \A p \in Procs :
          []<>(~(flavor = "sync" /\ timeout.kind # "Infinite" /\ InWait(p)))
    /\ [][\A p \in Procs :
            (flavor = "sync" /\ timeout.kind = "Duration" /\ WaitReturns(p) /\ cell = UnSet)
                => ret'[p] = Err("wait", "Timeout")]_vars

\* A repeated Duration wait on an UnSet cell is past its deadline, about to
\* time out again.
C12_Witness ==
    \E p \in Procs :
        /\ flavor = "sync" /\ timeout.kind = "Duration"
        /\ retry[p] /\ pc[p] = "w_check"
        /\ callAge[p] > timeout.d /\ cell = UnSet

\* p is inside a mutation: it holds, or held until this step, the write lock.
Mutating(p) == pc[p] \in {"set", "kill", "reset"}

\* p is inside an observation: it holds the read lock.
Observing(p) == pc[p] \in {"w_read", "p_read"}

\* C13: a clone inside set, kill or reset holds the lock alone, no other clone
\* being inside a mutation or an observation, while observations may hold it
\* together; the cell is always exactly one of UnSet, Value of an allocated
\* Arc, or Killed; and it changes only in the single step that completes a
\* mutation, never while an observation holds the lock.
C13_ExclusiveMutation ==
    /\ [](\A p \in Procs :
            /\ Mutating(p) => /\ writer = p /\ readers = {}
                               /\ \A q \in Procs \ {p} : ~Mutating(q) /\ ~Observing(q)
            /\ Observing(p) => p \in readers /\ writer = 0)
    /\ [](\/ cell \in {UnSet, Killed}
          \/ \E h \in Handles : cell = Value(h) /\ heap[h] \in Values)
    /\ [][cell' # cell
            => /\ \E p \in Procs : Mutating(p) /\ writer = p /\ pc'[p] = "idle"
               /\ \A q \in Procs : ~Observing(q)]_vars

\* Both clones are inside an observation at once, reading a value.
C13_Witness ==
    /\ readers = Procs
    /\ \A p \in Procs : Observing(p)
    /\ cell.tag = "Value"

\* C14: the deadline marker of the cooperative guard is set once: it is empty
\* or holds the first Instant that was ever stored in it, whatever polls, sets,
\* kills and resets have run since.
C14_MarkerSetOnce == marker = anchor

\* Both clones have found the marker empty and neither has stored its Instant.
C14_Witness ==
    /\ flavor = "async" /\ timeout.kind = "Duration"
    /\ marker = NoInstant
    /\ \A p \in Procs : pc[p] \in {"p_t0now", "p_t0store"}

\* C15: a poll that returns Poll::Pending has called the waker first, under
\* Infinite and under Duration(d) alike, so that the task is polled again.
C15_PendingSignalsWaker ==
    [][\A p \in Procs :
         (flavor = "async" /\ PollReturns(p) /\ ret'[p] = Pending) => woken'[p]]_vars

\* A poll under Duration(d) has returned Pending on an UnSet cell within the
\* deadline.
C15_Witness ==
    \E p \in Procs :
        /\ flavor = "async" /\ timeout.kind = "Duration"
        /\ ret[p] = Pending /\ pc[p] = "idle"
        /\ cell = UnSet /\ marker <= timeout.d

\* C16: a blocking wait under Infinite returns only from a read of the cell
\* that finds it not UnSet, a read of UnSet sending it round the loop again:
\* it returns Ok with the Arc the cell holds at that read, which is allocated,
\* or Err(Killed) when the cell is Killed at that read, and never Err(Timeout).
C16_InfiniteWaitResult ==
    [][\A p \in Procs :
         (flavor = "sync" /\ timeout = Infinite)
             => /\ (ReadDone(p) /\ cell = UnSet) => pc'[p] = "w_lock" /\ ret'[p] = NoRet
                /\ WaitReturns(p)
                     => /\ pc[p] = "w_read" /\ cell # UnSet
                        /\ ret'[p] # Err("wait", "Timeout")
                        /\ cell.tag = "Value"
                             => ret'[p] = Ok("wait", cell.h) /\ heap'[cell.h] \in Values
                        /\ cell = Killed => ret'[p] = Err("wait", "Killed")]_vars

\* An Infinite wait that began on a cell without a value is about to read the
\* value a set put there meanwhile.
C16_Witness ==
    \E p \in Procs :
        /\ flavor = "sync" /\ timeout = Infinite
        /\ pc[p] = "w_read" /\ valOK[p] = "during"
        /\ cell.tag = "Value" /\ heap[cell.h] = lastSet

\* Where a clone can be inside a blocking wait or a poll.
ObservationPcs ==
    {"w_check", "w_lock", "w_read",
     "p_t0check", "p_t0now", "p_t0store", "p_t0match", "p_lock", "p_read"}

\* This step is a step of p's wait or poll, its first and its last included.
ObservationStep(p) ==
    /\ pc'[p] # pc[p]
    /\ pc[p] \in ObservationPcs \/ pc'[p] \in ObservationPcs

\* C17: no step of a blocking wait or of a poll, whatever the policy and
\* whatever the call returns, changes the cell or the value behind the Arc it
\* holds; a step of a blocking wait leaves the deadline marker alone as well;
\* and a set or a kill that returns an error leaves the cell as it was.
C17_ObservationFrame ==
    [][\A p \in Procs :
         /\ ObservationStep(p)
               => /\ cell' = cell
                  /\ cell.tag = "Value" => heap'[cell.h] = heap[cell.h]
                  /\ lastSet' = lastSet
                  /\ flavor = "sync" => marker' = marker
         /\ (pc[p] \in {"set", "kill"} /\ pc'[p] = "idle" /\ ret'[p].kind # "Ok")
               => /\ cell' = cell
                  /\ heap' = heap]_vars

\* A wait has returned the value and the cell still holds it, after the other
\* clone's kill failed on that value.
C17_Witness ==
    \E p, q \in Procs :
        /\ p # q
        /\ ret[p].op = "wait" /\ ret[p].kind = "Ok" /\ cell = Value(ret[p].val)
        /\ ret[q] = Err("kill", "UnableToKilled")

\* Every state the cell can be given.
States == {UnSet, Killed} \cup {Value(h) : h \in Handles}

\* C18: on every cell state, with every new Arc and with the heap as it is,
\* AsyncGuard's set, kill and reset give the result and the next state that
\* SyncGuard's give, and a poll under Instant gives the result of a blocking
\* wait under Instant, which is never Pending; and in a run of the cooperative
\* guard each set, kill and reset, and under Instant each poll (one read of
\* the cell), ends with what the blocking operation gives on the same cell.
C18_FlavorsAgree ==
    /\ [](\A st \in States :
            /\ \A h \in Handles : AsyncGuard_set(st, h) = SyncGuard_set(st, h)
            /\ AsyncGuard_kill(st) = SyncGuard_kill(st)
            /\ AsyncGuard_reset(st, heap) = SyncGuard_reset(st, heap)
            /\ AsyncGuard_poll_Instant(st).res = SyncGuard_wait_Instant(st).res
            /\ AsyncGuard_poll_Instant(st).res # Pending
            /\ SyncGuard_wait_Instant(st).next = "return")
    /\ [][\A p \in Procs :
            flavor = "async"
                => /\ (pc[p] = "set" /\ pc'[p] = "idle")
                        => LET r == SyncGuard_set(cell, Arc_new(heap))
                           IN cell' = r.state /\ ret'[p] = r.res
                   /\ (pc[p] = "kill" /\ pc'[p] = "idle")
                        => LET r == SyncGuard_kill(cell)
                           IN cell' = r.state /\ ret'[p] = r.res
                   /\ (pc[p] = "reset" /\ pc'[p] = "idle")
                        => LET r == SyncGuard_reset(cell, heap)
                           IN cell' = r.state /\ ret'[p] = r.res
                   /\ timeout = Instant
                        => /\ pc'[p] \in {"idle", "set", "kill", "reset", "p_lock", "p_read"}
                           /\ ret'[p] # Pending
                           /\ PollReturns(p)
                                => /\ pc[p] = "p_read"
                                   /\ ret'[p] = SyncGuard_wait_Instant(cell).res]_vars

\* Under Instant a poll of the cooperative guard has returned the value the
\* cell holds.
C18_Witness ==
    \E p \in Procs :
        /\ flavor = "async" /\ timeout = Instant
        /\ ret[p].op = "wait" /\ ret[p].kind = "Ok"
        /\ cell = Value(ret[p].val) /\ heap[ret[p].val] \in Values

\* C19: under Infinite no clone stays inside a blocking wait for ever while
\* the cell holds a value: a wait in progress, or begun later, returns; a wait
\* that returns from a read of a value returns the Arc the cell holds, whose
\* value is that of the most recent successful set; and a waiter from which a
\* reset withdrew the value, reading UnSet, stays in its loop.
C19_ValueReachesWaiter ==
    /\ \A p \in Procs :
          []<>(~(flavor = "sync" /\ timeout = Infinite /\ InWait(p) /\ cell.tag = "Value"))
    /\ [][\A p \in Procs :
            (flavor = "sync" /\ timeout = Infinite)
                => /\ (WaitReturns(p) /\ cell.tag = "Value")
                        => /\ ret'[p] = Ok("wait", cell.h)
                           /\ heap'[cell.h] = lastSet /\ lastSet \in Values
                   /\ (missed[p] /\ ReadDone(p) /\ cell = UnSet)
                        => pc'[p] = "w_lock" /\ ret'[p] = NoRet]_vars

\* A spinning waiter has missed a value that was set and reset, and is about
\* to read the value of a later set.
C19_Witness ==
    \E p \in Procs :
        /\ flavor = "sync" /\ timeout = Infinite
        /\ missed[p] /\ pc[p] = "w_read"
        /\ cell.tag = "Value" /\ heap[cell.h] = lastSet

\* p holds the Arc its last wait (or poll) returned.
HoldsHandle(p) == ret[p].op = "wait" /\ ret[p].kind = "Ok"

\* C20: while an observer keeps the Arc its wait returned, no step of any
\* clone (set, kill, reset, another observation) changes or frees the value
\* behind it; and an observation that returns while the cell still holds the
\* Arc another observer was given, no mutation having replaced it, returns
\* that same Arc and so the same value.
C20_HandleIsStable ==
    [][\A p \in Procs :
         /\ (HoldsHandle(p) /\ ret'[p] = ret[p])
               => /\ heap[ret[p].val] \in Values
                  /\ heap'[ret[p].val] = heap[ret[p].val]
         /\ \A q \in Procs \ {p} :
               (HoldsHandle(q) /\ cell = Value(ret[q].val)
                /\ (WaitReturns(p) \/ PollReturns(p)) /\ ret'[p].kind = "Ok")
                   => /\ ret'[p].val = ret[q].val
                      /\ heap'[ret'[p].val] = heap[ret[q].val]]_vars

\* An observer still sees the value it was given after a set put another
\* value, behind another Arc, in the cell.
C20_Witness ==
    \E p \in Procs :
        /\ HoldsHandle(p) /\ heap[ret[p].val] \in Values
        /\ cell.tag = "Value" /\ cell.h # ret[p].val
        /\ heap[cell.h] # heap[ret[p].val]

====
